---- MODULE Spec2Model ----
(***************************************************************************)
(* Model of the DS18B20 1-Wire driver of NetworkModule (DS18B20.c):        *)
(* device enumeration (FindDevices / First / Next), the Dallas CRC-8,      *)
(* the sampling pass (get_temperature) and the temperature formatter       *)
(* (convert_temperature).                                                  *)
(*                                                                         *)
(* Bytes are naturals 0..255, identifiers are functions 0..7 -> byte with  *)
(* the C indices.  Bit position m (1..64) of an identifier is bit          *)
(* (m-1) % 8 of byte (m-1) \div 8, the order in which the search reads it. *)
(***************************************************************************)
EXTENDS Integers, Sequences, FiniteSets, TLC

(***************************************************************************)
(* Bounds of the model.                                                    *)
(***************************************************************************)
\* FindDevices runs explored from power-up where reruns are studied.
MaxRuns == 2
\* Bus faults (a lost presence pulse, a flipped read slot) injected per behaviour.
MaxFaults == 1

(***************************************************************************)
(* Byte arithmetic of the C code.                                          *)
(***************************************************************************)
Pow2(i) == 2 ^ i

\* bit i (0 = least significant) of v
Bit(v, i) == (v \div Pow2(i)) % 2

\* v with bit i replaced by g:  g ? (v | k) : (v & ~k)  with k = 1 << i
SetBit(v, i, g) == v - Bit(v, i) * Pow2(i) + g * Pow2(i)

\* one bit of a ^ b, at weight w = 2^i
XorAt(a, b, w) == (((a \div w) + (b \div w)) % 2) * w

\* a ^ b on uint8_t
Xor8(a, b) ==
  XorAt(a, b, 1) + XorAt(a, b, 2) + XorAt(a, b, 4) + XorAt(a, b, 8)
  + XorAt(a, b, 16) + XorAt(a, b, 32) + XorAt(a, b, 64) + XorAt(a, b, 128)

(***************************************************************************)
(* dallas_crc8 (DS18B20.c 670-691).                                        *)
(***************************************************************************)
\* 684 with the mixed bit inverted
Mix_Inverted(crc, inbyte) == 1 - XorAt(crc, inbyte, 1)

\* 684 with the mask 0x80 in place of 0x01
Mix_HighBit(crc, inbyte) == XorAt(crc, inbyte, 128) \div 128

\* 684: mix = (uint8_t)((crc ^ inbyte) & 0x01)
Mix(crc, inbyte) == XorAt(crc, inbyte, 1)

\* 682-688: the inner loop from bit j on
RECURSIVE crc8_bits(_, _, _)
crc8_bits(crc, inbyte, j) ==
  IF j = 8 THEN crc
  ELSE IF Mix(crc, inbyte) = 1
       THEN crc8_bits(Xor8(crc \div 2, 140), inbyte \div 2, j + 1)
       ELSE crc8_bits(crc \div 2, inbyte \div 2, j + 1)

\* for (i = 0; i < size; ++i): acc[i] is crc after the first i bytes
dallas_crc8(data, size) ==
  LET acc[i \in 0..size] ==
        IF i = 0 THEN 0 ELSE crc8_bits(acc[i - 1], data[i - 1], 0)
  IN  acc[size]

(***************************************************************************)
(* The devices that may sit on the bus.  Each identifier is a family code, *)
(* six serial bytes and a CRC byte.  TwinROM is ROM_A with its 64th bit    *)
(* flipped: it differs from ROM_A in the final bit only.                   *)
(***************************************************************************)
MkROM(p) == [i \in 0..7 |-> IF i < 7 THEN p[i + 1]
                            ELSE dallas_crc8([j \in 0..6 |-> p[j + 1]], 7)]

ROM_A == MkROM(<<40, 1, 0, 0, 0, 0, 0>>)
ROM_B == MkROM(<<40, 2, 0, 0, 0, 0, 0>>)
ROM_C == MkROM(<<40, 3, 0, 0, 0, 0, 0>>)
ROM_D == MkROM(<<40, 0, 1, 0, 0, 0, 0>>)
ROM_E == MkROM(<<16, 1, 0, 0, 0, 0, 0>>)
ROM_F == MkROM(<<40, 1, 0, 0, 0, 0, 128>>)
TwinROM == [ROM_A EXCEPT ![7] = Xor8(ROM_A[7], 128)]

ValidROMs  == {ROM_A, ROM_B, ROM_C, ROM_D, ROM_E, ROM_F}
DevicePool == ValidROMs \cup {TwinROM}

ZeroROM == [i \in 0..7 |-> 0]

\* bit m (1..64) of identifier id, in transmission order
ROMBit(id, m) == Bit(id[(m - 1) \div 8], (m - 1) % 8)


(***************************************************************************)
(* State.                                                                  *)
(***************************************************************************)
VARIABLES
  \* DS18B20.c 67-71
  ROM,              \* uint8_t ROM[8]
  lastDiscrep,      \* uint8_t lastDiscrep
  doneFlag,         \* uint8_t doneFlag
  FoundROM,         \* uint8_t FoundROM[5][8]
  numROMs,          \* int numROMs
  \* main.c (extern in DS18B20.c 39-41, 139)
  DS18B20_scratch,  \* uint8_t DS18B20_scratch[5][2]
  OctetArray,       \* result string of convert_temperature
  conv,             \* locals of convert_temperature at its return
  \* control
  pc,               \* position of the caller inside FindDevices / get_temperature
  device_num,       \* loop variable of get_temperature
  \* the 1-Wire bus
  bus,              \* identifiers of the devices wired to the line
  faultBudget,      \* bus faults the environment may still inject
  runBudget,        \* runs that may still be started
  \* history of the current run
  runs,             \* runs of FindDevices / get_temperature started
  busLog,           \* resets and bytes transmitted in the current run, in order
  readSlots,        \* read_bit calls of the search passes of the current run
  writeSlots,       \* write_bit calls of the search passes of the current run
  passes,           \* search passes (Search command sent) of the current run
  crcCalls,         \* dallas_crc8 calls of the current run
  oobStore,         \* FoundROM indices outside 0..4 written by the current run
  oobRead,          \* ROM[8] was read in the current run
  runFaults,        \* bus faults injected during the current run
  runBus,           \* the devices on the line when the current run started
  prevRun,          \* table, count and fault status at the end of the previous run
  scratch0,         \* DS18B20_scratch when the current sampling pass started
  failedAt,         \* device_num at which the opening reset of a sampling pass failed, or -1
  written,          \* FoundROM indices 0..4 stored by the current FindDevices run
  \* the sensors
  devConv,          \* per device: the pass whose Convert-T produced its register (0: power-on)
  slotSrc,          \* per sample slot: the pass that wrote it, the conversion it stems from
  \* calls of the byte-level functions
  call,             \* the last call made on its own (byte level, pin level, mqtt_pal_sendall): argument and result
  nextOut           \* the last Next() call of the current run: its locals at return

findVars   == <<ROM, lastDiscrep, doneFlag, FoundROM, numROMs>>
sampleVars == <<DS18B20_scratch, device_num, scratch0, failedAt>>
convVars   == <<OctetArray, conv>>
histVars   == <<runs, busLog, readSlots, writeSlots, passes, crcCalls,
               oobStore, oobRead, runFaults, runBus, prevRun, nextOut>>
auxVars    == <<written, call, devConv, slotSrc>>
vars == <<ROM, lastDiscrep, doneFlag, FoundROM, numROMs, DS18B20_scratch,
          OctetArray, conv, pc, device_num, bus, faultBudget, runBudget, runs,
          busLog, readSlots, writeSlots, passes, crcCalls, oobStore, oobRead,
          runFaults, runBus, prevRun, scratch0, failedAt, written, devConv,
          slotSrc, call, nextOut>>

(***************************************************************************)
(* BitLink.  The line is pulled up; a device drives it low.  Level 1 is    *)
(* the released line, level 0 a line some device holds low.                *)
(***************************************************************************)
\* reset_pulse returning 1 when the line was found low
reset_pulse_Inverted(presenceLevel) == IF presenceLevel = 1 THEN 0 ELSE 1

\* reset_pulse (445-464): rtn = 0; if (PC_IDR & 0x40) rtn = 1;
\* presenceLevel is the line level sampled in the presence window.
reset_pulse(presenceLevel) == IF presenceLevel = 1 THEN 1 ELSE 0

\* read_bit (492-522): bit = 0; if (PC_IDR & 0x40) bit = 1;
read_bit(level) == IF level = 1 THEN 1 ELSE 0

\* One operation on the bus pin (port C bit 6): a write to PC_ODR or PC_DDR,
\* the sampling of PC_IDR, or a programmed delay of us microseconds.
PinOp(op, us) == [op |-> op, us |-> us]

\* for (nop_cnt = 0; nop_cnt < limit; nop_cnt++) nop(): the delay is
\* limit / 2 microseconds (124-131)
NopLoop(limit) == PinOp("delay", limit \div 2)

\* wait_timer(us)
WaitTimer(us) == PinOp("delay", us)

\* reset_pulse 451-462, as pin operations
reset_pulse_Pin ==
  <<PinOp("odr1", 0), PinOp("out", 0), PinOp("odr0", 0), WaitTimer(500),
    PinOp("in", 0), WaitTimer(100), PinOp("sample", 0), WaitTimer(200)>>

\* read_bit 511-520, as pin operations
read_bit_Pin ==
  <<PinOp("odr1", 0), PinOp("out", 0), PinOp("odr0", 0), NopLoop(4),
    PinOp("in", 0), NopLoop(30), PinOp("sample", 0), WaitTimer(60)>>

\* write_bit without line 544: the pin stays an output
write_bit_NoRelease(transmit_bit) ==
  <<PinOp("odr1", 0), PinOp("out", 0), PinOp("odr0", 0), NopLoop(10)>>
    \o (IF transmit_bit = 0 THEN <<WaitTimer(60)>> ELSE <<>>)
    \o <<WaitTimer(60)>>

\* write_bit without line 542: a 0 is held low no longer than a 1
write_bit_ShortZero(transmit_bit) ==
  <<PinOp("odr1", 0), PinOp("out", 0), PinOp("odr0", 0), NopLoop(10),
    PinOp("in", 0), WaitTimer(60)>>

\* write_bit (525-548), as pin operations
write_bit(transmit_bit) ==
  <<PinOp("odr1", 0), PinOp("out", 0), PinOp("odr0", 0), NopLoop(10)>>
    \o (IF transmit_bit = 0 THEN <<WaitTimer(60)>> ELSE <<>>)
    \o <<PinOp("in", 0), WaitTimer(60)>>

\* The pin after one operation.  The master holds the line low while the pin
\* is an output with ODR 0; low, idle and total are the microseconds spent
\* holding it low, spent after releasing it, and spent in all.
PinAfter(st, o) ==
  IF o.op = "odr1" THEN [st EXCEPT !.odr = 1]
  ELSE IF o.op = "odr0" THEN [st EXCEPT !.odr = 0]
  ELSE IF o.op = "out" THEN [st EXCEPT !.ddr = "out"]
  ELSE IF o.op = "in" THEN [st EXCEPT !.ddr = "in"]
  ELSE IF o.op = "delay"
       THEN [st EXCEPT
               !.low   = IF st.ddr = "out" /\ st.odr = 0 THEN @ + o.us ELSE @,
               !.idle  = IF st.ddr = "in" THEN @ + o.us ELSE @,
               !.total = @ + o.us]
  ELSE st

\* the pin after the operations ops, entered with the pin in direction ddr0
PinRun(ops, ddr0) ==
  LET acc[i \in 0..Len(ops)] ==
        IF i = 0 THEN [ddr |-> ddr0, odr |-> 1, low |-> 0, idle |-> 0, total |-> 0]
        ELSE PinAfter(acc[i - 1], ops[i])
  IN  acc[Len(ops)]

\* 483-488: the loop of transmit_byte from mask j on
\*   if (j & transmit_value) write_bit(1); else write_bit(0);
\*   if (j == 0x80) break;  j = (uint8_t)(j << 1);
RECURSIVE transmit_from(_, _)
transmit_from(v, j) ==
  LET w == IF (v \div j) % 2 = 1 THEN 1 ELSE 0
  IN  IF j = 128 THEN <<w>> ELSE <<w>> \o transmit_from(v, (j * 2) % 256)

\* the mask running from 0x80 down to 0x01
transmit_byte_MsbFirst(v) ==
  [i \in 1..8 |-> IF (v \div Pow2(8 - i)) % 2 = 1 THEN 1 ELSE 0]

\* transmit_byte (467-489): the write_bit arguments, in call order
transmit_byte(v) == transmit_from(v, 1)

\* Line level in the presence window: low iff some wired device answers.
\* lost = 1 models a bus fault that hides the presence pulse.
PresenceLevel(devs, lost) == IF devs = {} \/ lost = 1 THEN 1 ELSE 0

\* Line level of a search read slot (wired AND of the participants), given
\* the set `bits` of the values the participants hold at that position: in
\* the true slot (compl = 0) a device holding 0 pulls the line low, in the
\* complement slot (compl = 1) a device holding 1 does.
SearchLevel(bits, compl) == IF compl \in bits THEN 0 ELSE 1

\* a fault flips the level seen in read slot number `slot` of the pass
Flip(level, slot, flip) == IF slot = flip THEN 1 - level ELSE level

(***************************************************************************)
(* Next (595-667): one search pass.                                        *)
(***************************************************************************)
\* (ROM[n] & k) > 0
MaskSet(byte, k) == (byte \div k) % 2 = 1

\* 636-637 with the else branch taking 0 at m == lastDiscrep as well
DiscrepancyChoice_AlwaysOld(m, lastD, romByte, k) ==
  IF m < lastD THEN (IF MaskSet(romByte, k) THEN 1 ELSE 0) ELSE 0

\* 636-637 with the else branch taking 1 at every position from lastDiscrep on
DiscrepancyChoice_TakeOne(m, lastD, romByte, k) ==
  IF m < lastD THEN (IF MaskSet(romByte, k) THEN 1 ELSE 0) ELSE 1

\* 636-637 with the replay of line 636 left out
DiscrepancyChoice_NoReplay(m, lastD, romByte, k) == IF m = lastD THEN 1 ELSE 0

\* 636-637 with the replayed bit inverted
DiscrepancyChoice_ReplayInverted(m, lastD, romByte, k) ==
  IF m < lastD THEN (IF MaskSet(romByte, k) THEN 0 ELSE 1)
  ELSE (IF m = lastD THEN 1 ELSE 0)

\* 636-637: the bit taken at a discrepancy (x == 0)
DiscrepancyChoice(m, lastD, romByte, k) ==
  IF m < lastD THEN (IF MaskSet(romByte, k) THEN 1 ELSE 0)
  ELSE (IF m = lastD THEN 1 ELSE 0)

\* 625-652: one iteration of the do-loop.  st holds the locals m, n, k,
\* discrepMarker, the buffer ROM, the devices still participating, whether
\* the loop was left by break, the iterations begun (two read_bit calls
\* each), the write_bit calls and the largest index used on ROM.
SearchBit(st, lastD, flip) ==
  LET slot1 == 2 * st.reads + 1
      slot2 == 2 * st.reads + 2
      bits == {ROMBit(d, st.m) : d \in st.active}
      r1 == read_bit(Flip(SearchLevel(bits, 0), slot1, flip))
      r2 == read_bit(Flip(SearchLevel(bits, 1), slot2, flip))
      x  == (IF r1 = 1 THEN 2 ELSE 0) + (IF r2 = 1 THEN 1 ELSE 0)
      g  == IF x > 0 THEN x \div 2
            ELSE DiscrepancyChoice(st.m, lastD, st.rom[st.n], st.k)
      k2 == (st.k * 2) % 256
  IN  IF x = 3
      THEN [st EXCEPT !.brk = TRUE, !.reads = st.reads + 1]
      ELSE [st EXCEPT
              !.discrepMarker = IF x = 0 /\ g = 0 THEN st.m ELSE st.discrepMarker,
              !.rom    = [st.rom EXCEPT ![st.n] =
                            IF g = 1 THEN (IF MaskSet(@, st.k) THEN @ ELSE @ + st.k)
                            ELSE (IF MaskSet(@, st.k) THEN @ - st.k ELSE @)],
              !.active = {d \in st.active : ROMBit(d, st.m) = g},
              !.m      = (st.m + 1) % 256,
              !.k      = IF k2 = 0 THEN 1 ELSE k2,
              !.n      = IF k2 = 0 THEN st.n + 1 ELSE st.n,
              !.reads  = st.reads + 1,
              !.writes = st.writes + 1,
              !.maxN   = IF st.n > st.maxN THEN st.n ELSE st.maxN]

\* do { ... } while (n < 8)
RECURSIVE SearchLoop(_, _, _)
SearchLoop(st, lastD, flip) ==
  LET st2 == SearchBit(st, lastD, flip)
  IN  IF st2.brk \/ ~(st2.n < 8) THEN st2 ELSE SearchLoop(st2, lastD, flip)

\* 658 with the test m < 65 left out
SearchValid_CrcOnly(m, crc, rom8) == crc = rom8

\* 658: the pass succeeded.  rom8 is the byte read as ROM[8], one past the
\* end of the 8-byte buffer.
SearchValid(m, crc, rom8) == ~(m < 65 \/ crc # rom8)

\* 615 with the result of reset_pulse ignored
SearchSkipped_DoneOnly(rtn, done) == done # 0

\* 615 with doneFlag ignored
SearchSkipped_ResetOnly(rtn, done) == rtn # 0

\* 615: the pass is skipped
SearchSkipped(rtn, done) == rtn # 0 \/ done # 0

\* 612-656: Next() up to and including the CRC computation.  Inputs: the
\* devices on the line, whether a fault hides the presence pulse, the read
\* slot a fault flips (0: none).
SearchPass(rom, lastD, done, devs, lost, flip) ==
  LET rtn == reset_pulse(PresenceLevel(devs, lost))
  IN  IF SearchSkipped(rtn, done)
      THEN [searched |-> FALSE, rtn |-> rtn, done |-> done, rom |-> rom,
            m |-> 1, discrepMarker |-> 0, crc |-> 0, reads |-> 0,
            writes |-> 0, maxN |-> 0]
      ELSE LET st == SearchLoop([m |-> 1, n |-> 0, k |-> 1, discrepMarker |-> 0,
                                 rom |-> rom, active |-> devs, brk |-> FALSE,
                                 reads |-> 0, writes |-> 0, maxN |-> 0],
                                lastD, flip)
           IN  [searched |-> TRUE, rtn |-> rtn, done |-> done, rom |-> st.rom,
                m |-> st.m, discrepMarker |-> st.discrepMarker,
                crc |-> dallas_crc8(st.rom, 8), reads |-> st.reads,
                writes |-> st.writes, maxN |-> st.maxN]

\* 615-620, 658-666: the outcome of Next() for a pass p, with rom8 the byte
\* read as ROM[8]: the new search state, the return value, the commands sent,
\* the read and write slots used.
NextCall(p, rom8) ==
  IF ~p.searched
  THEN [ROM |-> p.rom, lastDiscrep |-> 0, doneFlag |-> p.done, nxt |-> 0,
        log |-> <<<<"reset", p.rtn>>>>, searched |-> FALSE,
        readSlots |-> 0, writeSlots |-> 0, oobRead |-> FALSE,
        out |-> [called |-> TRUE, searched |-> FALSE, m |-> 1,
                 discrepMarker |-> 0, nxt |-> 0, maxN |-> 0]]
  ELSE LET ok == SearchValid(p.m, p.crc, rom8)
       IN  [ROM |-> p.rom,
            lastDiscrep |-> IF ok THEN p.discrepMarker ELSE 0,
            doneFlag |-> IF ok THEN (IF p.discrepMarker = 0 THEN 1 ELSE 0)
                         ELSE p.done,
            nxt |-> IF ok THEN 1 ELSE 0,
            log |-> <<<<"reset", p.rtn>>, <<"tx", 240>>>>,
            searched |-> TRUE,
            readSlots |-> 2 * p.reads, writeSlots |-> p.writes,
            \* m < 65 || (crc != ROM[8]): ROM[8] is read iff m >= 65
            oobRead |-> ~(p.m < 65),
            out |-> [called |-> TRUE, searched |-> TRUE, m |-> p.m,
                     discrepMarker |-> p.discrepMarker,
                     nxt |-> IF ok THEN 1 ELSE 0, maxN |-> p.maxN]]

\* no Next() call made yet in the run
NoNext ==
  [called |-> FALSE, searched |-> FALSE, m |-> 1, discrepMarker |-> 0,
   nxt |-> 0, maxN |-> 0]

(***************************************************************************)
(* Inputs the environment chooses.                                         *)
(***************************************************************************)
\* read slots of a search pass in which a fault may flip the line
FaultSlots == {1, 8, 128}

\* the presence pulse is hidden (1) or not (0)
LostChoices == IF faultBudget > 0 THEN {0, 1} ELSE {0}

\* the read slot flipped in a pass (0: none)
FlipChoices == IF faultBudget > 0 THEN {0} \cup FaultSlots ELSE {0}

\* ROM[8] lies outside uint8_t ROM[8] (67): the read yields whatever byte
\* the build placed behind the buffer.
OobBytes == 0..255

\* (int16) of two adjacent bytes, high byte first (STM8 byte order)
Int16(hi, lo) == LET u == hi * 256 + lo IN IF u >= 32768 THEN u - 65536 ELSE u

\* FoundROM[idx][0..7] = ROM[0..7] with idx outside 0..4 writes 8 bytes
\* outside uint8_t FoundROM[5][8] (70); int numROMs (71) is declared right
\* behind the table.  Either the count survives, or two of the written
\* bytes land on it.
ClobberedCounts(count, rom) ==
  {count} \cup {Int16(rom[i], rom[i + 1]) : i \in 0..6}

(***************************************************************************)
(* FindDevices (551-578), in steps: the opening reset, First(), the store  *)
(* of the loop body, and the Next() of the loop condition.                 *)
(***************************************************************************)
EmptyScratch == [i \in 0..4 |-> [j \in 0..1 |-> 0]]

\* 566 with the negation dropped
PresenceDetected_Inverted(rtn) == rtn # 0

\* 566: if (!reset_pulse())
PresenceDetected(rtn) == rtn = 0

\* 574: while (Next() && (numROMs < 5))
LoopAgain(nxt, count) == nxt # 0 /\ count < 5

\* 564 left out: the count of the previous run is kept
ResetCount_Keep(old) == old

\* 564: numROMs = -1, whatever the count was
ResetCount(old) == -1

\* 564-566
FindDevices_Start ==
  /\ pc = "idle"
  /\ runBudget > 0
  /\ \E lost \in LostChoices :
       LET rtn == reset_pulse(PresenceLevel(bus, lost))
       IN  /\ numROMs' = ResetCount(numROMs)
           /\ pc' = IF PresenceDetected(rtn) THEN "first" ELSE "idle"
           /\ busLog' = <<<<"reset", rtn>>>>
           /\ faultBudget' = faultBudget - lost
           /\ runFaults' = lost
  /\ runBudget' = runBudget - 1
  /\ runs' = runs + 1
  /\ passes' = 0
  /\ readSlots' = 0
  /\ writeSlots' = 0
  /\ crcCalls' = 0
  /\ oobStore' = {}
  /\ oobRead' = FALSE
  /\ prevRun' = [table |-> FoundROM, count |-> numROMs, ran |-> runs >= 1,
                 faults |-> runFaults, oob |-> oobStore # {}, bus |-> runBus]
  /\ runBus' = bus
  /\ written' = {}
  /\ nextOut' = NoNext
  /\ UNCHANGED <<ROM, lastDiscrep, doneFlag, FoundROM, bus>>
  /\ UNCHANGED <<sampleVars, convVars, call, devConv, slotSrc>>

\* The effect of one Next() call r on the state, common to First and Next.
ApplyNext(r, lost, flip) ==
  /\ ROM' = r.ROM
  /\ lastDiscrep' = r.lastDiscrep
  /\ doneFlag' = r.doneFlag
  /\ busLog' = busLog \o r.log
  /\ readSlots' = readSlots + r.readSlots
  /\ writeSlots' = writeSlots + r.writeSlots
  /\ passes' = passes + (IF r.searched THEN 1 ELSE 0)
  /\ crcCalls' = crcCalls + (IF r.searched THEN 1 ELSE 0)
  /\ oobRead' = (oobRead \/ r.oobRead)
  /\ faultBudget' = faultBudget - lost - (IF flip # 0 THEN 1 ELSE 0)
  /\ runFaults' = runFaults + lost + (IF flip # 0 THEN 1 ELSE 0)
  /\ nextOut' = r.out

\* 567, 581-592: First() resets the search state and calls Next()
FindDevices_First ==
  /\ pc = "first"
  /\ \E lost \in LostChoices, flip \in FlipChoices :
       /\ lost = 1 => flip = 0
       /\ \E p \in {SearchPass(ROM, 0, 0, bus, lost, flip)} :
            \E r \in {NextCall(p, rom8) : rom8 \in OobBytes} :
              /\ ApplyNext(r, lost, flip)
              /\ pc' = IF r.nxt # 0 THEN "store" ELSE "idle"
  /\ UNCHANGED <<FoundROM, numROMs, bus, runs, runBudget, oobStore, runBus,
                 prevRun>>
  /\ UNCHANGED <<sampleVars, convVars, auxVars>>

\* 569-573: numROMs++; FoundROM[numROMs][m] = ROM[m]
FindDevices_Store ==
  /\ pc = "store"
  /\ LET idx == numROMs + 1
     IN  IF idx \in 0..4
         THEN /\ numROMs' = idx
              /\ FoundROM' = [FoundROM EXCEPT ![idx] = ROM]
              /\ written' = written \cup {idx}
              /\ UNCHANGED oobStore
         ELSE /\ numROMs' \in ClobberedCounts(idx, ROM)
              /\ oobStore' = oobStore \cup {idx}
              /\ UNCHANGED <<FoundROM, written>>
  /\ pc' = "next"
  /\ UNCHANGED <<ROM, lastDiscrep, doneFlag, bus, faultBudget, runBudget>>
  /\ UNCHANGED <<runs, busLog, readSlots, writeSlots, passes, crcCalls,
                 oobRead, runFaults, runBus, prevRun, nextOut>>
  /\ UNCHANGED <<sampleVars, convVars, call, devConv, slotSrc>>

\* 574: the loop condition
FindDevices_Next ==
  /\ pc = "next"
  /\ \E lost \in LostChoices, flip \in FlipChoices :
       /\ lost = 1 => flip = 0
       /\ \E p \in {SearchPass(ROM, lastDiscrep, doneFlag, bus, lost, flip)} :
            \E r \in {NextCall(p, rom8) : rom8 \in OobBytes} :
              /\ ApplyNext(r, lost, flip)
              /\ pc' = IF LoopAgain(r.nxt, numROMs) THEN "store" ELSE "idle"
  /\ UNCHANGED <<FoundROM, numROMs, bus, runs, runBudget, oobStore, runBus,
                 prevRun>>
  /\ UNCHANGED <<sampleVars, convVars, auxVars>>

\* Between two runs a device is taken off the line.
Unplug ==
  /\ pc = "idle"
  /\ runs >= 1
  /\ runBudget > 0
  /\ runBus = bus
  /\ \E d \in bus : bus' = bus \ {d}
  /\ UNCHANGED <<findVars, sampleVars, convVars, histVars, auxVars>>
  /\ UNCHANGED <<pc, faultBudget, runBudget>>

(***************************************************************************)
(* get_temperature (97-210), one action per iteration of the device loop.  *)
(***************************************************************************)
\* The temperature register (scratchpad bytes 0 and 1, as one 16-bit value)
\* each device of the pool holds.
Scratchpad(id) ==
  IF id = ROM_A THEN 401          \* 0x0191  +25.0625 C
  ELSE IF id = ROM_B THEN 65374   \* 0xff5e  -10.125 C
  ELSE IF id = ROM_C THEN 2000    \* 0x07d0  +125 C
  ELSE IF id = ROM_D THEN 64656   \* 0xfc90  -55 C
  ELSE IF id = ROM_E THEN 1360    \* 0x0550  +85 C
  ELSE IF id = ROM_F THEN 162     \* 0x00a2  +10.125 C
  ELSE 65528                      \* 0xfff8  -0.5 C

\* Line level of read slot k (0..15) after Match-ROM(id) and Read-Scratchpad:
\* the addressed device, if wired, sends its scratchpad least-significant bit
\* first; otherwise nobody drives the line and it stays high.
ScratchLevel(devs, id, k) ==
  IF id \in devs THEN Bit(Scratchpad(id), k) ELSE 1

\* the identifier bytes sent last byte first
MatchROM_Reversed(id) ==
  <<<<"tx", 85>>>> \o [i \in 1..8 |-> <<"tx", id[8 - i]>>]

\* 155, 206 preceded by 152, 203: transmit_byte(0x55), then the 8 bytes of
\* the table entry
MatchROM(id) ==
  <<<<"tx", 85>>>> \o [i \in 1..8 |-> <<"tx", id[i - 1]>>]

\* 194-195 with the else branch left out: bits are set, never cleared
AssembleByte_SetOnly(prior, bits) ==
  LET acc[j \in 0..8] ==
        IF j = 0 THEN prior
        ELSE IF bits[j] = 1 THEN SetBit(acc[j - 1], j - 1, 1) ELSE acc[j - 1]
  IN  acc[8]

\* 192-198: one byte of the slot after its 8 read slots; bits[j] is what
\* read_bit returned in the j-th of them.
\*   if (read_bit() == 1) slot |= j; else slot &= ~j;
AssembleByte(prior, bits) ==
  LET acc[j \in 0..8] ==
        IF j = 0 THEN prior ELSE SetBit(acc[j - 1], j - 1, bits[j])
  IN  acc[8]

\* 147 with the result of reset_pulse ignored, as line 202 does
ResetFailed_Never(rtn) == FALSE

\* 147: if (reset_pulse()) return;
ResetFailed(rtn) == rtn # 0

\* 150 with the test left out
InTable_Always(dn, count) == TRUE

\* 150: if (device_num <= numROMs)
InTable(dn, count) == dn <= count

\* 142 with the loop left after the first device
LoopDevices_Once(dn) == dn < 1

\* 142, 209: device_num++ ; device_num < 5
LoopDevices(dn) == dn < 5

\* the turn with the conversion started before the scratchpad is read
SampleDevice_ConvertFirst(id, slot, devs, rtn2) ==
  LET rd == [k \in 0..15 |-> read_bit(ScratchLevel(devs, id, k))]
      b0 == AssembleByte(slot[0], [j \in 1..8 |-> rd[j - 1]])
      b1 == AssembleByte(slot[1], [j \in 1..8 |-> rd[j + 7]])
  IN  [slot |-> [j \in 0..1 |-> IF j = 0 THEN b0 ELSE b1],
       log  |-> MatchROM(id) \o <<<<"tx", 68>>>>
                  \o <<<<"reset", rtn2>>>> \o MatchROM(id) \o <<<<"tx", 190>>>>
                  \o [k \in 1..16 |-> <<"rd", rd[k - 1]>>]]

\* 152-207 for table entry id: the sample slot and the bus traffic.  rtn2 is
\* what the reset_pulse of line 202 returned.
SampleDevice(id, slot, devs, rtn2) ==
  LET rd == [k \in 0..15 |-> read_bit(ScratchLevel(devs, id, k))]
      b0 == AssembleByte(slot[0], [j \in 1..8 |-> rd[j - 1]])
      b1 == AssembleByte(slot[1], [j \in 1..8 |-> rd[j + 7]])
  IN  [slot |-> [j \in 0..1 |-> IF j = 0 THEN b0 ELSE b1],
       log  |-> MatchROM(id) \o <<<<"tx", 190>>>>
                  \o [k \in 1..16 |-> <<"rd", rd[k - 1]>>]
                  \o <<<<"reset", rtn2>>>> \o MatchROM(id) \o <<<<"tx", 68>>>>]

\* A DS18B20 with identifier id listening to one bus event (110-121,
\* 157-166): a reset makes it expect a ROM command; after Match-ROM and its
\* own 8 identifier bytes it takes the function command: Read-Scratchpad
\* makes it answer the following read slots with its register, Convert-T
\* starts a conversion whose result fills the register before the next pass
\* (the passes are 30 s apart, 99).  conv is the pass whose Convert-T
\* produced the register content, sent the conv of the content it last put
\* on the line (-1: none).
DeviceHears(st, ev, id, now) ==
  IF ev[1] = "reset" THEN [st EXCEPT !.phase = "rom", !.n = 0]
  ELSE IF st.phase = "rom"
       THEN [st EXCEPT !.phase = IF ev = <<"tx", 85>> THEN "addr" ELSE "idle"]
  ELSE IF st.phase = "addr"
       THEN IF ev[1] = "tx" /\ ev[2] = id[st.n]
            THEN [st EXCEPT !.n = st.n + 1,
                            !.phase = IF st.n = 7 THEN "func" ELSE "addr"]
            ELSE [st EXCEPT !.phase = "idle"]
  ELSE IF st.phase = "func"
       THEN IF ev = <<"tx", 190>> THEN [st EXCEPT !.phase = "read"]
            ELSE IF ev = <<"tx", 68>>
                 THEN [st EXCEPT !.phase = "idle", !.conv = now]
                 ELSE [st EXCEPT !.phase = "idle"]
  ELSE IF st.phase = "read" /\ ev[1] = "rd" THEN [st EXCEPT !.sent = st.conv]
  ELSE st

\* the device after the bus events of one turn of the loop
DeviceAfter(log, id, conv0, now) ==
  LET acc[i \in 0..Len(log)] ==
        IF i = 0 THEN [phase |-> "idle", n |-> 0, conv |-> conv0, sent |-> -1]
        ELSE DeviceHears(acc[i - 1], log[i], id, now)
  IN  acc[Len(log)]

\* the entry with the search state cleared as First() does
GetTemperature_Start_ResetSearch ==
  /\ pc = "idle"
  /\ runBudget > 0
  /\ pc' = "sample"
  /\ device_num' = 0
  /\ scratch0' = DS18B20_scratch
  /\ failedAt' = -1
  /\ runBudget' = runBudget - 1
  /\ runs' = runs + 1
  /\ busLog' = <<>>
  /\ runFaults' = 0
  /\ runBus' = bus
  /\ lastDiscrep' = 0
  /\ doneFlag' = 0
  /\ UNCHANGED <<ROM, FoundROM, numROMs>>
  /\ UNCHANGED <<convVars, auxVars, DS18B20_scratch, bus, faultBudget>>
  /\ UNCHANGED <<readSlots, writeSlots, passes, crcCalls, oobStore, oobRead,
                 prevRun, nextOut>>

\* 142: entry of the function and of the loop
GetTemperature_Start ==
  /\ pc = "idle"
  /\ runBudget > 0
  /\ pc' = "sample"
  /\ device_num' = 0
  /\ scratch0' = DS18B20_scratch
  /\ failedAt' = -1
  /\ runBudget' = runBudget - 1
  /\ runs' = runs + 1
  /\ busLog' = <<>>
  /\ runFaults' = 0
  /\ runBus' = bus
  /\ UNCHANGED <<findVars, convVars, auxVars, DS18B20_scratch, bus, faultBudget>>
  /\ UNCHANGED <<readSlots, writeSlots, passes, crcCalls, oobStore, oobRead,
                 prevRun, nextOut>>

\* 147-209: one iteration
GetTemperature_Device ==
  /\ pc = "sample"
  /\ \E lost1 \in LostChoices, lost2 \in LostChoices :
       LET rtn1 == reset_pulse(PresenceLevel(bus, lost1))
           rtn2 == reset_pulse(PresenceLevel(bus, lost2))
           s    == SampleDevice(FoundROM[device_num],
                                DS18B20_scratch[device_num], bus, rtn2)
           used == IF ResetFailed(rtn1) \/ ~InTable(device_num, numROMs)
                   THEN lost1 ELSE lost1 + lost2
       IN  /\ used <= faultBudget
           /\ (ResetFailed(rtn1) \/ ~InTable(device_num, numROMs)) => lost2 = 0
           /\ faultBudget' = faultBudget - used
           /\ runFaults' = runFaults + used
           /\ failedAt' = IF rtn1 = 1 /\ failedAt = -1 THEN device_num
                          ELSE failedAt
           /\ IF ResetFailed(rtn1)
              THEN /\ pc' = "idle"
                   /\ busLog' = Append(busLog, <<"reset", rtn1>>)
                   /\ UNCHANGED <<DS18B20_scratch, device_num, devConv, slotSrc>>
              ELSE /\ IF InTable(device_num, numROMs)
                      THEN /\ DS18B20_scratch' =
                                [DS18B20_scratch EXCEPT ![device_num] = s.slot]
                           /\ busLog' = Append(busLog, <<"reset", rtn1>>) \o s.log
                           /\ devConv' = [d \in DevicePool |->
                                IF d \in bus
                                THEN DeviceAfter(<<<<"reset", rtn1>>>> \o s.log,
                                                 d, devConv[d], runs).conv
                                ELSE devConv[d]]
                           /\ slotSrc' = [slotSrc EXCEPT ![device_num] =
                                [pass |-> runs,
                                 conv |-> IF FoundROM[device_num] \in bus
                                          THEN DeviceAfter(<<<<"reset", rtn1>>>> \o s.log,
                                                 FoundROM[device_num],
                                                 devConv[FoundROM[device_num]],
                                                 runs).sent
                                          ELSE -1]]
                      ELSE /\ busLog' = Append(busLog, <<"reset", rtn1>>)
                           /\ UNCHANGED <<DS18B20_scratch, devConv, slotSrc>>
                   /\ device_num' = device_num + 1
                   /\ pc' = IF LoopDevices(device_num + 1) THEN "sample"
                            ELSE "idle"
  /\ UNCHANGED <<findVars, convVars, bus, runBudget, runs, scratch0, runBus,
                 written, call>>
  /\ UNCHANGED <<readSlots, writeSlots, passes, crcCalls, oobStore, oobRead,
                 prevRun, nextOut>>

(***************************************************************************)
(* convert_temperature (213-436).                                          *)
(***************************************************************************)
\* the table with the fraction truncated to a tenth instead of rounded
dec_temp_Truncated ==
  [n \in 0..15 |-> <<"0", "0", "1", "1", "2", "3", "3", "4",
                     "5", "5", "6", "6", "7", "8", "8", "9">>[n + 1]]

\* 46-62: the rounding table, indexed by the fraction nibble
dec_temp ==
  [n \in 0..15 |-> <<"0", "1", "1", "2", "3", "3", "4", "4",
                     "5", "6", "6", "7", "8", "8", "9", "9">>[n + 1]]

\* the character of a decimal digit
DigitChar(d) == <<"0", "1", "2", "3", "4", "5", "6", "7", "8", "9">>[d + 1]

\* emb_itoa(num, str, 10, pad) (declared httpd.h 73): the decimal digits of
\* num, most significant first, padded with zeroes on the left to pad digits
RECURSIVE emb_itoa(_, _)
emb_itoa(num, pad) ==
  IF pad <= 1 /\ num < 10 THEN <<DigitChar(num)>>
  ELSE Append(emb_itoa(num \div 10, pad - 1), DigitChar(num % 10))

\* 335 with the test left out
SensorExists_Always(hi) == TRUE

\* 335 with the constant mistyped as 0x05
SensorExists_WrongByte(hi) == hi # 5

\* 335: if (DS18B20_scratch[device_num][1] != 0x55)
SensorExists(hi) == hi # 85

\* division rounding toward minus infinity (an arithmetic shift)
TruncDiv_Floor(a, b) == a \div b

\* C integer division (397, 409): the quotient is rounded toward zero
TruncDiv(a, b) == IF a >= 0 THEN a \div b ELSE -((-a) \div b)

\* 411 with the fraction dropped
LowNibble_Zero(v) == 0

\* v & 0xf of an int32 v (two's complement)
LowNibble(v) == v % 16

\* 341-361: degrees C.  The locals whole_temp, decimal_temp and
\* temp_string[0] at line 362.
CelsiusParts(hi, lo) ==
  LET whole   == ((hi * 256 + lo) % 2048) \div 16     \* & 0x07f0, >> 4
      decimal == lo % 16                               \* & 0x0f
  IN  IF hi >= 128                                     \* (hi & 0x80) == 0x80
      THEN [sign |-> "-", whole |-> Xor8(whole, 127),
            decimal |-> (Xor8(decimal, 15) + 1) % 16]
      ELSE [sign |-> " ", whole |-> whole, decimal |-> decimal]

\* 378-418: degrees F.  The same locals at line 419.
FahrenheitParts(hi, lo) ==
  LET F_temp0 == Int16(hi, lo)
      F_temp1 == (F_temp0 + 880) * 180
      F_temp2 == TruncDiv(F_temp1, 100) - 1072
      whole   == TruncDiv(F_temp2, 16)
      decimal == LowNibble(F_temp2)
  IN  IF F_temp2 < 0
      THEN [sign |-> "-", whole |-> whole * (-1),
            decimal |-> (Xor8(decimal, 15) + 1) % 16]
      ELSE [sign |-> " ", whole |-> whole, decimal |-> decimal]

\* 423-435: the string left in OctetArray
BuildString(parts) ==
  LET digits == emb_itoa(parts.whole, 3)
  IN  <<parts.sign, digits[1], digits[2], digits[3], ".",
        dec_temp[parts.decimal]>>

Placeholder == <<"-", "-", "-", "-", "-", "-">>

\* convert_temperature(dn, degCorF)
ConvertTemperature ==
  /\ pc = "idle"
  /\ \E dn \in 0..4, degCorF \in 0..1 :
       LET hi == DS18B20_scratch[dn][1]
           lo == DS18B20_scratch[dn][0]
           parts == IF degCorF = 0 THEN CelsiusParts(hi, lo)
                    ELSE FahrenheitParts(hi, lo)
       IN  IF SensorExists(hi)
           THEN /\ OctetArray' = BuildString(parts)
                /\ conv' = [called |-> TRUE, device_num |-> dn,
                            degCorF |-> degCorF, sensor |-> TRUE,
                            sign |-> parts.sign, whole_temp |-> parts.whole,
                            decimal_temp |-> parts.decimal]
           ELSE /\ OctetArray' = Placeholder
                /\ conv' = [called |-> TRUE, device_num |-> dn,
                            degCorF |-> degCorF, sensor |-> FALSE,
                            sign |-> " ", whole_temp |-> 0,
                            decimal_temp |-> 0]
  /\ UNCHANGED <<findVars, sampleVars, histVars, auxVars>>
  /\ UNCHANGED <<pc, bus, faultBudget, runBudget>>

(***************************************************************************)
(* Calls of the byte-level functions on their own.                         *)
(***************************************************************************)
\* longest byte sequence over CrcAlphabet handed to dallas_crc8
MaxCrcLen == 3

CrcAlphabet == {0, 1, 2, 28, 128, 140, 184, 255}

\* the byte sequences of length 0..n over CrcAlphabet
RECURSIVE SeqsUpTo(_)
SeqsUpTo(n) ==
  IF n = 0 THEN {<<>>}
  ELSE LET shorter == SeqsUpTo(n - 1)
       IN  shorter \cup {Append(q, b) : q \in shorter, b \in CrcAlphabet}

\* the first n bytes of an identifier, as a sequence
Bytes(id, n) == [i \in 1..n |-> id[i - 1]]

\* arguments of dallas_crc8: the short sequences, every single byte, the
\* identifiers of the pool with and without their CRC byte, and the example
\* identifier of Maxim application note 27
CrcInputs ==
  SeqsUpTo(MaxCrcLen) \cup {<<b>> : b \in 0..255}
    \cup {Bytes(id, 7) : id \in DevicePool} \cup {Bytes(id, 8) : id \in DevicePool}
    \cup {<<2, 28, 184, 1, 0, 0, 0>>, <<2, 28, 184, 1, 0, 0, 0, 162>>}

\* no call made yet; b is the buffer the calls will work on
NoCall(b) == [fn |-> "none", arg |-> b, out |-> <<>>]

\* crc = dallas_crc8(data, size) on the buffer
Call_dallas_crc8 ==
  /\ pc = "idle"
  /\ \E b \in {call.arg} :
       call' = [fn |-> "dallas_crc8", arg |-> b,
                out |-> <<dallas_crc8([i \in 0..(Len(b) - 1) |-> b[i + 1]],
                                      Len(b))>>]
  /\ UNCHANGED <<findVars, sampleVars, convVars, histVars>>
  /\ UNCHANGED <<pc, bus, faultBudget, runBudget, written, devConv, slotSrc>>

\* dallas_crc8 over the buffer followed by the CRC just computed for it, the
\* layout of an identifier (7 bytes and their CRC) that Next hands over at 656
Call_dallas_crc8_Appended ==
  /\ pc = "idle"
  /\ call.fn = "dallas_crc8"
  /\ Len(call.arg) <= 7
  /\ \E b \in {Append(call.arg, call.out[1])} :
       call' = [fn |-> "dallas_crc8_appended", arg |-> b,
                out |-> <<dallas_crc8([i \in 0..(Len(b) - 1) |-> b[i + 1]],
                                      Len(b))>>]
  /\ UNCHANGED <<findVars, sampleVars, convVars, histVars>>
  /\ UNCHANGED <<pc, bus, faultBudget, runBudget, written, devConv, slotSrc>>

\* the directions the pin may have when a bit-level function is entered
PinDirections == {"in", "out"}

\* reset_pulse() on a line whose presence window shows either level
Call_reset_pulse ==
  /\ pc = "idle"
  /\ \E level \in {0, 1}, d \in PinDirections :
       call' = [fn |-> "reset_pulse", arg |-> <<>>,
                out |-> [rtn |-> reset_pulse(level),
                         pin |-> PinRun(reset_pulse_Pin, d)]]
  /\ UNCHANGED <<findVars, sampleVars, convVars, histVars>>
  /\ UNCHANGED <<pc, bus, faultBudget, runBudget, written, devConv, slotSrc>>

\* read_bit() on a line showing either level
Call_read_bit ==
  /\ pc = "idle"
  /\ \E level \in {0, 1}, d \in PinDirections :
       call' = [fn |-> "read_bit", arg |-> <<>>,
                out |-> [rtn |-> read_bit(level),
                         pin |-> PinRun(read_bit_Pin, d)]]
  /\ UNCHANGED <<findVars, sampleVars, convVars, histVars>>
  /\ UNCHANGED <<pc, bus, faultBudget, runBudget, written, devConv, slotSrc>>

\* write_bit(transmit_bit); any non-zero argument sends a 1
Call_write_bit ==
  /\ pc = "idle"
  /\ \E b \in {0, 1, 64}, d \in PinDirections :
       call' = [fn |-> "write_bit", arg |-> <<b>>,
                out |-> [rtn |-> 0, pin |-> PinRun(write_bit(b), d)]]
  /\ UNCHANGED <<findVars, sampleVars, convVars, histVars>>
  /\ UNCHANGED <<pc, bus, faultBudget, runBudget, written, devConv, slotSrc>>

\* transmit_byte(v) for a byte v of the buffer: out is the sequence of
\* write_bit arguments
Call_transmit_byte ==
  /\ pc = "idle"
  /\ \E v \in {call.arg[i] : i \in 1..Len(call.arg)} :
       call' = [fn |-> "transmit_byte", arg |-> <<v>>, out |-> transmit_byte(v)]
  /\ UNCHANGED <<findVars, sampleVars, convVars, histVars>>
  /\ UNCHANGED <<pc, bus, faultBudget, runBudget, written, devConv, slotSrc>>

(***************************************************************************)
(* Power-up state (C zero initialisation of the file-scope objects).       *)
(***************************************************************************)
PowerUp ==
  /\ ROM = ZeroROM
  /\ lastDiscrep = 0
  /\ doneFlag = 0
  /\ FoundROM = [i \in 0..4 |-> ZeroROM]
  /\ numROMs = 0
  /\ DS18B20_scratch = EmptyScratch
  /\ OctetArray = <<>>
  /\ conv = [called |-> FALSE, device_num |-> 0, degCorF |-> 0,
             sensor |-> FALSE, sign |-> " ", whole_temp |-> 0,
             decimal_temp |-> 0]
  /\ pc = "idle"
  /\ device_num = 0
  /\ runs = 0
  /\ busLog = <<>>
  /\ readSlots = 0
  /\ writeSlots = 0
  /\ passes = 0
  /\ crcCalls = 0
  /\ oobStore = {}
  /\ oobRead = FALSE
  /\ runFaults = 0
  /\ scratch0 = EmptyScratch
  /\ failedAt = -1
  /\ written = {}
  /\ devConv = [d \in DevicePool |-> 0]
  /\ slotSrc = [i \in 0..4 |-> [pass |-> 0, conv |-> -1]]
  /\ nextOut = NoNext

(***************************************************************************)
(* Spec: one FindDevices run after power-up, on any bus built from the     *)
(* device pool, with bus faults.                                           *)
(***************************************************************************)
Init ==
  /\ PowerUp
  /\ call = NoCall(<<>>)
  /\ bus \in SUBSET DevicePool
  /\ prevRun = [table |-> FoundROM, count |-> 0, ran |-> FALSE, faults |-> 0,
                oob |-> FALSE, bus |-> bus]
  /\ runBus = bus
  /\ faultBudget = MaxFaults
  /\ runBudget = 1

Next ==
  \/ FindDevices_Start
  \/ FindDevices_First
  \/ FindDevices_Store
  \/ FindDevices_Next

Spec == Init /\ [][Next]_vars

(***************************************************************************)
(* SpecRerun: FindDevices run MaxRuns times on a fault-free bus; between   *)
(* runs a device may be unplugged.  The buses are the small ones and those *)
(* with more devices than the table holds.                                 *)
(***************************************************************************)
RerunBuses ==
  {B \in SUBSET DevicePool : Cardinality(B) <= 2 \/ Cardinality(B) >= 6}

InitRerun ==
  /\ PowerUp
  /\ call = NoCall(<<>>)
  /\ bus \in RerunBuses
  /\ prevRun = [table |-> FoundROM, count |-> 0, ran |-> FALSE, faults |-> 0,
                oob |-> FALSE, bus |-> bus]
  /\ runBus = bus
  /\ faultBudget = 0
  /\ runBudget = MaxRuns

NextRerun ==
  \/ FindDevices_Start
  \/ FindDevices_First
  \/ FindDevices_Store
  \/ FindDevices_Next
  \/ Unplug

SpecRerun == InitRerun /\ [][NextRerun]_vars


(***************************************************************************)
(* SpecSample: get_temperature run MaxRuns times on the table an           *)
(* enumeration left behind.  The table holds the first devices of the pool *)
(* in search order; any of them may have been taken off the line since.    *)
(***************************************************************************)
\* the CRC-valid devices of the pool in the order FindDevices stores them
SampleOrder == <<ROM_E, ROM_D, ROM_B, ROM_A, ROM_F>>

\* the table after an enumeration that found count + 1 devices
TableOf(count) ==
  [i \in 0..4 |-> IF i <= count THEN SampleOrder[i + 1] ELSE ZeroROM]

\* sample slots left by earlier passes
PriorScratches == {EmptyScratch, [i \in 0..4 |-> [j \in 0..1 |-> 85 - 17 * i]]}

HistoryClear ==
  /\ runs = 0
  /\ busLog = <<>>
  /\ readSlots = 0
  /\ writeSlots = 0
  /\ passes = 0
  /\ crcCalls = 0
  /\ oobStore = {}
  /\ oobRead = FALSE
  /\ runFaults = 0
  /\ failedAt = -1
  /\ written = {}
  /\ devConv = [d \in DevicePool |-> 0]
  /\ slotSrc = [i \in 0..4 |-> [pass |-> 0, conv |-> -1]]
  /\ nextOut = NoNext
  /\ device_num = 0
  /\ pc = "idle"
  /\ OctetArray = <<>>
  /\ conv = [called |-> FALSE, device_num |-> 0, degCorF |-> 0,
             sensor |-> FALSE, sign |-> " ", whole_temp |-> 0,
             decimal_temp |-> 0]

\* the state a completed enumeration of count + 1 devices leaves
Enumerated(count) ==
  /\ numROMs = count
  /\ FoundROM = TableOf(count)
  /\ ROM = IF count >= 0 THEN SampleOrder[count + 1] ELSE ZeroROM
  /\ lastDiscrep = 0
  /\ doneFlag = IF count >= 0 THEN 1 ELSE 0

InitSample ==
  /\ HistoryClear
  /\ call = NoCall(<<>>)
  /\ \E count \in -1..4 :
       /\ Enumerated(count)
       /\ bus \in SUBSET {SampleOrder[i] : i \in 1..(count + 1)}
  /\ DS18B20_scratch \in PriorScratches
  /\ scratch0 = DS18B20_scratch
  /\ prevRun = [table |-> FoundROM, count |-> numROMs, ran |-> FALSE,
                faults |-> 0, oob |-> FALSE, bus |-> bus]
  /\ runBus = bus
  /\ faultBudget = MaxFaults
  /\ runBudget = MaxRuns

NextSample ==
  \/ GetTemperature_Start
  \/ GetTemperature_Device

SpecSample == InitSample /\ [][NextSample]_vars

(***************************************************************************)
(* SpecReport: one get_temperature pass on a fault-free bus, with          *)
(* convert_temperature called on the slots before and after it, as the     *)
(* pages that show the temperatures do.                                    *)
(***************************************************************************)
InitReport ==
  /\ HistoryClear
  /\ call = NoCall(<<>>)
  /\ \E count \in -1..4 :
       /\ Enumerated(count)
       /\ bus \in SUBSET {SampleOrder[i] : i \in 1..(count + 1)}
  /\ DS18B20_scratch \in PriorScratches
  /\ scratch0 = DS18B20_scratch
  /\ prevRun = [table |-> FoundROM, count |-> numROMs, ran |-> FALSE,
                faults |-> 0, oob |-> FALSE, bus |-> bus]
  /\ runBus = bus
  /\ faultBudget = 0
  /\ runBudget = 1

NextReport ==
  \/ GetTemperature_Start
  \/ GetTemperature_Device
  \/ ConvertTemperature

SpecReport == InitReport /\ [][NextReport]_vars

(***************************************************************************)
(* SpecMain: FindDevices and get_temperature called in any order, MaxRuns  *)
(* calls in all, after power-up on a fault-free bus of at most two         *)
(* devices.                                                                *)
(***************************************************************************)
MainBuses == {B \in SUBSET DevicePool : Cardinality(B) <= 2}

InitMain ==
  /\ PowerUp
  /\ call = NoCall(<<>>)
  /\ bus \in MainBuses
  /\ prevRun = [table |-> FoundROM, count |-> 0, ran |-> FALSE, faults |-> 0,
                oob |-> FALSE, bus |-> bus]
  /\ runBus = bus
  /\ faultBudget = 0
  /\ runBudget = MaxRuns

NextMain ==
  \/ FindDevices_Start
  \/ FindDevices_First
  \/ FindDevices_Store
  \/ FindDevices_Next
  \/ GetTemperature_Start
  \/ GetTemperature_Device

SpecMain == InitMain /\ [][NextMain]_vars

(***************************************************************************)
(* SpecConv: convert_temperature applied to sample slots holding every     *)
(* sign-extended reading and a choice of other bit patterns.               *)
(***************************************************************************)
\* high bytes of the raw samples explored: the sign-extended readings
\* (bits 11-15 equal) and other patterns, the sentinel among them
SignExtendedHigh == (0..7) \cup (248..255)
OtherHigh == {8, 33, 84, 85, 127, 128, 247}

InitConv ==
  /\ HistoryClear
  /\ call = NoCall(<<>>)
  /\ Enumerated(0)
  /\ bus = {SampleOrder[1]}
  /\ \E hi \in SignExtendedHigh \cup OtherHigh, lo \in 0..255, dn \in {0, 4} :
       DS18B20_scratch =
         [i \in 0..4 |-> [j \in 0..1 |->
            IF i = dn THEN (IF j = 0 THEN lo ELSE hi) ELSE 0]]
  /\ scratch0 = DS18B20_scratch
  /\ prevRun = [table |-> FoundROM, count |-> numROMs, ran |-> FALSE,
                faults |-> 0, oob |-> FALSE, bus |-> bus]
  /\ runBus = bus
  /\ faultBudget = 0
  /\ runBudget = 0

NextConv == ConvertTemperature

SpecConv == InitConv /\ [][NextConv]_vars

(***************************************************************************)
(* SpecUnit: dallas_crc8 and transmit_byte called on their own after       *)
(* power-up, on a buffer holding one of CrcInputs.                         *)
(***************************************************************************)
InitUnit ==
  /\ PowerUp
  /\ \E b \in CrcInputs : call = NoCall(b)
  /\ bus = {}
  /\ prevRun = [table |-> FoundROM, count |-> 0, ran |-> FALSE, faults |-> 0,
                oob |-> FALSE, bus |-> bus]
  /\ runBus = bus
  /\ faultBudget = 0
  /\ runBudget = 0

NextUnit ==
  \/ Call_dallas_crc8
  \/ Call_dallas_crc8_Appended
  \/ Call_reset_pulse
  \/ Call_read_bit
  \/ Call_write_bit
  \/ Call_transmit_byte

SpecUnit == InitUnit /\ [][NextUnit]_vars

(***************************************************************************)
(* mqtt_pal_sendall (mqtt_pal.c).  The packet handed over is described by  *)
(* the bytes the function examines: ctrl, old and vhl are template_buf[0], *)
(* [1] and [3], mark and kind are payload_buf[0] and [1], name is          *)
(* strlen(stored_devicename), len the length argument, build the           *)
(* configuration the file was compiled with.                               *)
(***************************************************************************)
\* mqtt_pal.c 269: (template_buf[0] & 0xf0) == 0x30
IsPublish(p) == (p.ctrl \div 16) = 3

\* mqtt_pal.c 272-273: one remaining-length byte, and a payload behind the
\* variable header
ShortWithPayload(p) == (p.old \div 128) # 1 /\ p.old > (p.vhl + 2)

\* mqtt_pal.c 323-335: payload_buf[0] is the marker (the NUL written at
\* payload_buf[14] or [4] leaves it alone); the test is reached only through
\* 269 and 272
PlaceholderFound(p) == IsPublish(p) /\ ShortWithPayload(p) /\ p.mark = "%"

\* mqtt_pal.c 168 and 345-380: the payload size without the device name; the
\* P and H cases are compiled only with BME280_SUPPORT
PayloadBase(p) ==
  IF p.kind = "T" THEN 331
  ELSE IF p.kind = "P" /\ p.build = "HA_BME280" THEN 328
  ELSE IF p.kind = "H" /\ p.build = "HA_BME280" THEN 323
  ELSE IF p.kind = "I" THEN 234
  ELSE IF p.kind = "O" THEN 263
  ELSE 0

\* mqtt_pal.c 424-426: the ten bytes more of a sensor placeholder; the test is
\* compiled in every build
SensorKind(p) == p.kind \in {"T", "P", "H"}

\* mqtt_pal.c 384 and 423-426: the new remaining length, in the uint16_t
\* payload_size
NewRemaining(p) ==
  (PayloadBase(p) + 2 * p.name + p.old - 4
     - (IF SensorKind(p) THEN 10 ELSE 0)) % 65536

\* v | 0x80 on a byte
Or0x80(v) == IF (v \div 128) % 2 = 1 THEN v ELSE v + 128

\* mqtt_pal.c 457-464: the two bytes stored at uip_appdata + 1 (467-468)
new_remaining(size) ==
  IF size < 384
    THEN <<Or0x80(((size - 256) % 65536) % 256), 2>>
    ELSE <<Or0x80(((size - 384) % 65536) % 256), 3>>

\* the int16_t value of the uint16_t len returned at 779 and 854
ReturnValue(v) == IF v >= 32768 THEN v - 65536 ELSE v

\* mqtt_pal.c 157-781, HOME_ASSISTANT_SUPPORT: what the call leaves behind.
\* replaced is auto_found, bytes the two bytes after the control byte of a
\* replaced packet
mqtt_pal_sendall_ReturnSent(p) ==
  IF PlaceholderFound(p)
    THEN [rtn |-> ReturnValue((NewRemaining(p) + 3) % 65536), replaced |-> TRUE,
          size |-> NewRemaining(p), bytes |-> new_remaining(NewRemaining(p)),
          uip_slen |-> (NewRemaining(p) + 3) % 65536]
    ELSE [rtn |-> ReturnValue(p.len), replaced |-> FALSE, size |-> 0,
          bytes |-> <<>>, uip_slen |-> p.len]

mqtt_pal_sendall(p) ==
  IF PlaceholderFound(p)
    THEN [rtn |-> ReturnValue(p.len), replaced |-> TRUE,
          size |-> NewRemaining(p), bytes |-> new_remaining(NewRemaining(p)),
          uip_slen |-> (NewRemaining(p) + 3) % 65536]
    ELSE [rtn |-> ReturnValue(p.len), replaced |-> FALSE, size |-> 0,
          bytes |-> <<>>, uip_slen |-> p.len]

\* mqtt_pal.c 787-856, DOMOTICZ_SUPPORT: the packet is copied as it is
mqtt_pal_sendall_Domoticz(p) ==
  [rtn |-> ReturnValue(p.len), replaced |-> FALSE, size |-> 0, bytes |-> <<>>,
   uip_slen |-> p.len]

\* the one call of mqtt_pal_sendall, in a Home Assistant build
Call_mqtt_pal_sendall ==
  /\ pc = "idle"
  /\ call.fn = "none"
  /\ call.arg.build \in {"HA", "HA_BME280"}
  /\ call' = [fn |-> "mqtt_pal_sendall", arg |-> call.arg,
              out |-> mqtt_pal_sendall(call.arg)]
  /\ UNCHANGED <<findVars, sampleVars, convVars, histVars>>
  /\ UNCHANGED <<pc, bus, faultBudget, runBudget, written, devConv, slotSrc>>

\* the same call in a Domoticz build
Call_mqtt_pal_sendall_Domoticz ==
  /\ pc = "idle"
  /\ call.fn = "none"
  /\ call.arg.build = "DOMOTICZ"
  /\ call' = [fn |-> "mqtt_pal_sendall", arg |-> call.arg,
              out |-> mqtt_pal_sendall_Domoticz(call.arg)]
  /\ UNCHANGED <<findVars, sampleVars, convVars, histVars>>
  /\ UNCHANGED <<pc, bus, faultBudget, runBudget, written, devConv, slotSrc>>

(***************************************************************************)
(* SpecMqtt: one call of mqtt_pal_sendall on a packet of the send buffer.  *)
(* Publish packets with the marker are explored for every first            *)
(* remaining-length byte, every device name length and every second        *)
(* payload character the function tells apart; the other packets are a     *)
(* choice of control packets, of Publish packets without marker and of     *)
(* packets with a longer remaining length.                                 *)
(***************************************************************************)
\* template_buf[3], the length of the topic in the variable header: an empty
\* topic, two lengths a one-byte remaining length leaves room behind, and one
\* that leaves no room for a payload
TopicLengths == {0, 43, 50, 125}

\* second payload characters: the five the function knows and another one
PayloadKinds == {"O", "I", "T", "P", "H", "x"}

Builds == {"HA", "HA_BME280", "DOMOTICZ"}

\* the length of a packet with one remaining-length byte
PacketLen(old) == old + 2

MarkedPublish ==
  [ctrl : {49}, old : 0..127, vhl : TopicLengths, mark : {"%"},
   kind : PayloadKinds, name : 0..19, len : {0}, build : Builds]

OtherPackets ==
  [ctrl : {16, 48, 49, 51, 130, 192}, old : {0, 2, 12, 55, 127, 128, 255},
   vhl : {0, 4, 43}, mark : {"%", "o"}, kind : {"O", "N"}, name : {0, 19},
   len : {0}, build : Builds]

\* stored_devicename holds up to 19 characters (main.c); len is the length of
\* the packet in the send buffer
MqttInputs ==
  {[p EXCEPT !.len = IF p.old < 128 THEN PacketLen(p.old) ELSE 300] :
      p \in MarkedPublish \cup OtherPackets}

InitMqtt ==
  /\ PowerUp
  /\ \E p \in MqttInputs : call = NoCall(p)
  /\ bus = {}
  /\ prevRun = [table |-> FoundROM, count |-> 0, ran |-> FALSE, faults |-> 0,
                oob |-> FALSE, bus |-> bus]
  /\ runBus = bus
  /\ faultBudget = 0
  /\ runBudget = 0

NextMqtt ==
  \/ Call_mqtt_pal_sendall
  \/ Call_mqtt_pal_sendall_Domoticz

SpecMqtt == InitMqtt /\ [][NextMqtt]_vars

(***************************************************************************)
(* Properties of the enumeration.                                          *)
(***************************************************************************)
\* a FindDevices run has been started and has returned
FindDone == pc = "idle" /\ runs >= 1

\* the identifiers reachable through the count
TableEntries == {FoundROM[i] : i \in 0..(IF numROMs > 4 THEN 4 ELSE numROMs)}

\* Dallas CRC-8 of family and serial bytes equals the stored CRC byte
CrcConsistent(id) == dallas_crc8(id, 7) = id[7]

TwinBus == {ROM_A, TwinROM}

\* C1: on a fault-free bus of N <= 5 distinct CRC-valid identifiers, one
\* FindDevices run stores exactly those N identifiers (numROMs = N - 1), none
\* missing, none twice.
C1_AllFound ==
  (FindDone /\ runFaults = 0 /\ bus \subseteq ValidROMs /\ Cardinality(bus) <= 5)
    => (numROMs = Cardinality(bus) - 1 /\ TableEntries = bus)

\* C2: for any number of devices FindDevices stores at most 5 identifiers:
\* no table entry above index 4 is written and numROMs never exceeds 4.
C2_TableBounded == numROMs <= 4 /\ oobStore = {}

\* C7: every identifier in the table is CRC-consistent; an identifier
\* received with a corrupted bit is never stored.
C7_StoredCrcConsistent ==
  runs >= 1 => \A id \in TableEntries : CrcConsistent(id)

\* C8 as claimed: two devices differing only in the 64th bit are both found
\* in exactly two search passes, the following Next call returns 0 without a
\* search, and FindDevices ends with 2 entries.
C8_TwinsBothFound ==
  (FindDone /\ runFaults = 0 /\ bus = TwinBus)
    => (passes = 2 /\ numROMs = 1 /\ TableEntries = TwinBus)

\* C8 amended: with the two twins on a fault-free bus FindDevices makes at
\* most two search passes and stores at most 2 entries; the first pass
\* resolves the twin whose last bit is 0, the second the twin whose last bit
\* is 1; when both were stored the third Next call is a reset only.
C8_TwinsAtMostTwoPasses ==
  (runs >= 1 /\ runFaults = 0 /\ bus = TwinBus)
    => /\ passes <= 2
       /\ numROMs <= 1
       /\ numROMs <= passes - 1
       /\ numROMs >= 0 => FoundROM[0] = ROM_A
       /\ numROMs = 1 => FoundROM[1] = TwinROM
       /\ (FindDone /\ numROMs = 1)
            => busLog = <<<<"reset", 0>>, <<"reset", 0>>, <<"tx", 240>>,
                          <<"reset", 0>>, <<"tx", 240>>, <<"reset", 0>>>>

\* both twins were stored after two search passes
C8_Witness ==
  FindDone /\ runFaults = 0 /\ bus = TwinBus /\ numROMs = 1 /\ passes = 2

\* C9: a rerun on an unchanged fault-free bus yields the same table contents,
\* order and count as the previous run.
C9_RerunSameTable ==
  (FindDone /\ prevRun.ran /\ prevRun.bus = runBus /\ runFaults = 0
     /\ prevRun.faults = 0)
    => (numROMs = prevRun.count
        /\ \A i \in 0..4 : i <= numROMs => FoundROM[i] = prevRun.table[i])

\* C10: with no device on the bus FindDevices ends with an empty table after
\* the initial failed reset: that reset is the only bus operation, no Search
\* command is sent, no bit slot is read and no CRC is computed.
C10_NoDeviceNoSearch ==
  (bus = {} /\ runs >= 1)
    => /\ pc = "idle"
       /\ numROMs = -1
       /\ busLog = <<<<"reset", 1>>>>
       /\ passes = 0 /\ readSlots = 0 /\ writeSlots = 0 /\ crcCalls = 0

\* a FindDevices run on an empty bus has returned
C10_Witness == bus = {} /\ FindDone /\ numROMs = -1

(***************************************************************************)
(* Properties of the sampling pass (SpecSample).                           *)
(***************************************************************************)
\* some reset of the current pass reported no presence
NoPresenceSeen == \E i \in 1..Len(busLog) : busLog[i] = <<"reset", 1>>

\* C3 as claimed: if a reset reports no presence at any point of a sampling
\* pass, every sample slot still holds the value it had before the pass,
\* the slots of devices handled earlier in the pass included.
C3_NoSlotModified ==
  (runs >= 1 /\ NoPresenceSeen) => DS18B20_scratch = scratch0

\* C3 amended: if the reset that opens the turn of device k reports no
\* presence, the pass ends there and the slot of device k and of every later
\* device still holds the value it had before the pass.
C3_LaterSlotsKept ==
  failedAt >= 0
    => /\ pc = "idle"
       /\ device_num = failedAt
       /\ \A i \in failedAt..4 : DS18B20_scratch[i] = scratch0[i]

\* a pass read device 0 and then ended on the opening reset of a later device
C3_Witness ==
  /\ failedAt >= 1
  /\ pc = "idle"
  /\ DS18B20_scratch[0] # scratch0[0]
  /\ DS18B20_scratch[failedAt] = scratch0[failedAt]

\* C4: in a sampling pass a reset that detects no presence, be it the one
\* before the scratchpad read or the one before Convert-Temperature, is the
\* last bus operation of the pass.
C4_NothingAfterFailedReset ==
  \A i \in 1..Len(busLog) : busLog[i] = <<"reset", 1>> => i = Len(busLog)

(***************************************************************************)
(* Properties of the formatter (SpecConv).                                 *)
(***************************************************************************)
\* the slot the last conversion read, as a signed 16-bit value
ConvHigh == DS18B20_scratch[conv.device_num][1]
ConvLow  == DS18B20_scratch[conv.device_num][0]
ConvRaw  == IF ConvHigh >= 128 THEN ConvHigh * 256 + ConvLow - 65536
            ELSE ConvHigh * 256 + ConvLow

Abs(x) == IF x < 0 THEN -x ELSE x

\* integer division as the claims mean it (C semantics)
Quot(a, b) == IF a < 0 THEN -(Abs(a) \div b) ELSE a \div b

\* bits 11-15 of the raw sample are equal
SignExtended == -2048 <= ConvRaw /\ ConvRaw <= 2047

\* the rendering shows sign sgn, whole part w and the digit of fraction nibble n
Renders(v, w, n) ==
  /\ OctetArray[1] = (IF v < 0 THEN "-" ELSE " ")
  /\ conv.whole_temp = w
  /\ OctetArray[5] = "."
  /\ OctetArray[6] = dec_temp[n]

\* C5: a sign-extended raw sample is rendered in Celsius with sign '-' iff
\* it is negative, whole part floor(|raw| / 16) and the digit of the fraction
\* nibble |raw| mod 16.
C5_CelsiusRendering ==
  (conv.called /\ conv.degCorF = 0 /\ SignExtended)
    => Renders(ConvRaw, Abs(ConvRaw) \div 16, Abs(ConvRaw) % 16)

\* C6: a raw sample other than the sentinel is rendered in Fahrenheit from
\* F = ((raw + 880) * 180) / 100 - 1072 with sign '-' iff F < 0, whole part
\* |F| div 16 and the digit of the fraction nibble |F| mod 16.
C6_FahrenheitRendering ==
  (conv.called /\ conv.degCorF = 1 /\ ConvHigh # 85)
    => LET F == Quot((ConvRaw + 880) * 180, 100) - 1072
       IN  Renders(F, Abs(F) \div 16, Abs(F) % 16)

\* 0xfee3 is rendered as -0.1 F
C6_Witness ==
  /\ conv.called /\ conv.degCorF = 1
  /\ ConvHigh = 254 /\ ConvLow = 227
  /\ OctetArray = <<"-", "0", "0", "0", ".", "1">>

\* C11: a slot holding the absent sentinel (high byte 0x55, any low byte) is
\* rendered as exactly "------", for a Celsius and for a Fahrenheit request.
C11_SentinelPlaceholder ==
  (conv.called /\ ConvHigh = 85)
    => (OctetArray = <<"-", "-", "-", "-", "-", "-">> /\ ~conv.sensor)

\* the sentinel with a non-zero low byte was converted for degrees F
C11_Witness ==
  /\ conv.called /\ conv.degCorF = 1
  /\ ConvHigh = 85 /\ ConvLow = 170
  /\ OctetArray = Placeholder

\* C12: no sign-extended reading satisfies the sentinel test, so none is
\* rendered as the placeholder.
C12_ReadingNotSentinel ==
  (conv.called /\ SignExtended)
    => /\ conv.sensor
       /\ OctetArray # <<"-", "-", "-", "-", "-", "-">>
       /\ OctetArray[5] = "."

\* the reading 0x0550 (+85 C, the power-on value of the sensor) was rendered
C12_Witness ==
  /\ conv.called /\ conv.degCorF = 0
  /\ ConvHigh = 5 /\ ConvLow = 80
  /\ OctetArray = <<" ", "0", "8", "5", ".", "0">>

(***************************************************************************)
(* Further properties of the sampling pass (SpecSample).                   *)
(***************************************************************************)
\* C13: a sampling pass leaves unchanged every slot whose index is not a
\* table index (index > numROMs) and, when it aborts on a failed reset before
\* device k, every slot with index >= k.
C13_SlotsOutsidePassKept ==
  runs >= 1
    => \A i \in 0..4 :
         (i > numROMs \/ (failedAt >= 0 /\ i >= failedAt))
           => DS18B20_scratch[i] = scratch0[i]

\* a complete pass over a table of two devices rewrote both their slots
C13_Witness ==
  /\ pc = "idle" /\ runs >= 1 /\ device_num = 5 /\ failedAt = -1
  /\ numROMs = 1
  /\ DS18B20_scratch[0] # scratch0[0]
  /\ DS18B20_scratch[1] # scratch0[1]
  /\ DS18B20_scratch[2] = scratch0[2]

\* the turns of table devices completed so far in the current pass
TurnsDone == IF device_num <= numROMs THEN device_num ELSE numROMs + 1

\* the 38 bus operations from position b + 1 on are one turn for identifier id
TurnAt(b, id) ==
  /\ Len(busLog) >= b + 38
  /\ busLog[b + 1] = <<"reset", 0>>
  /\ busLog[b + 2] = <<"tx", 85>>
  /\ \A j \in 0..7 : busLog[b + 3 + j] = <<"tx", id[j]>>
  /\ busLog[b + 11] = <<"tx", 190>>
  /\ \A k \in 1..16 : busLog[b + 11 + k][1] = "rd"
  /\ busLog[b + 28][1] = "reset"
  /\ busLog[b + 29] = <<"tx", 85>>
  /\ \A j \in 0..7 : busLog[b + 30 + j] = <<"tx", id[j]>>
  /\ busLog[b + 38] = <<"tx", 68>>

\* C14: the table devices are handled in ascending index and the bus sequence
\* of device i is exactly reset, 0x55, the 8 bytes of entry i, 0xBE, 16 read
\* slots, reset, 0x55, the same 8 bytes, 0x44.
C14_TurnSequence ==
  runs >= 1
    => /\ \A i \in 0..4 : i < TurnsDone => TurnAt(38 * i, FoundROM[i])
       /\ \A p \in 1..Len(busLog) : p > 38 * TurnsDone => busLog[p][1] = "reset"

\* a complete pass over a table of two devices: two turns and three resets
C14_Witness ==
  /\ pc = "idle" /\ runs >= 1 /\ device_num = 5
  /\ numROMs = 1
  /\ Len(busLog) = 79
  /\ busLog[76] = <<"tx", 68>>

\* C15: a device's scratchpad is read before Convert-T is sent to it and the
\* pass does not come back to it, so a value stored in pass k never stems from
\* a conversion of pass k: in the first pass it stems from no conversion this
\* code started, and on a bus without faults the value a wired device
\* delivers in pass k stems from the conversion of pass k-1.
C15_ValueOfPreviousPass ==
  \A i \in 0..4 :
    (runs >= 1 /\ slotSrc[i].pass = runs)
      => /\ slotSrc[i].conv < runs
         /\ runs = 1 => slotSrc[i].conv <= 0
         /\ (runs >= 2 /\ faultBudget = MaxFaults /\ FoundROM[i] \in bus)
              => slotSrc[i].conv = runs - 1

\* the second pass stored for device 0 the conversion started by the first
C15_Witness ==
  /\ pc = "idle" /\ runs = 2
  /\ slotSrc[0] = [pass |-> 2, conv |-> 1]
  /\ devConv[FoundROM[0]] = 2

(***************************************************************************)
(* Properties of the byte-level functions.                                 *)
(***************************************************************************)
\* C16 as claimed: reset_pulse returns non-zero iff at least one device
\* drove the line low in the presence window.
C16_ResetTrueIffPresence ==
  \A i \in 1..Len(busLog) :
    (runFaults = 0 /\ busLog[i][1] = "reset")
      => (busLog[i][2] # 0 <=> bus # {})

\* C16 amended: reset_pulse returns 0 iff at least one device drove the line
\* low in the presence window, and 1 iff the line was found released.
C16_ResetZeroIffPresence ==
  \A i \in 1..Len(busLog) :
    (runFaults = 0 /\ busLog[i][1] = "reset")
      => /\ busLog[i][2] \in {0, 1}
         /\ busLog[i][2] = 0 <=> bus # {}

\* a run on a bus with a device began with a reset that returned 0
C16_Witness ==
  /\ runs >= 1 /\ runFaults = 0 /\ bus # {}
  /\ busLog[1] = <<"reset", 0>>
  /\ passes >= 1

\* The Dallas/Maxim CRC-8 as a shift register, held as the set of the
\* positions 0..7 whose flag is set and fed the bits of the bytes
\* least-significant first: the register moves one place toward position 0
\* and the taps of 0x8C (positions 7, 3, 2) are inverted when the flag
\* shifted out differs from the data bit.
RefTaps == {2, 3, 7}

RefMoved(c) == {i - 1 : i \in c \ {0}}

RefDataBit(bytes, k) == (bytes[(k \div 8) + 1] \div (2 ^ (k % 8))) % 2 = 1

\* the register after the bits k, k + 1, ... of bytes
RECURSIVE RefFeed(_, _, _)
RefFeed(c, bytes, k) ==
  IF k = 8 * Len(bytes) THEN c
  ELSE IF (0 \in c) # RefDataBit(bytes, k)
       THEN RefFeed((RefMoved(c) \ RefTaps) \cup (RefTaps \ RefMoved(c)),
                    bytes, k + 1)
       ELSE RefFeed(RefMoved(c), bytes, k + 1)

RefNumber(c) ==
  LET sum[i \in 0..8] ==
        IF i = 0 THEN 0 ELSE sum[i - 1] + (IF (i - 1) \in c THEN 2 ^ (i - 1) ELSE 0)
  IN  sum[8]

RefCrc(bytes) == RefNumber(RefFeed({}, bytes, 0))

\* C17: dallas_crc8 equals the reference Dallas/Maxim CRC-8 for every byte
\* sequence handed to it.
C17_CrcMatchesReference ==
  call.fn = "dallas_crc8" => call.out = <<RefCrc(call.arg)>>

\* the identifier 02 1C B8 01 00 00 00 of application note 27 gives 0xA2
C17_Witness ==
  /\ call.fn = "dallas_crc8"
  /\ call.arg = <<2, 28, 184, 1, 0, 0, 0>>
  /\ call.out = <<162>>

\* C18: transmit_byte(v) issues exactly 8 write_bit calls, the i-th
\* (i = 0..7) carrying bit i of v.
C18_TransmitLsbFirst ==
  call.fn = "transmit_byte"
    => /\ Len(call.out) = 8
       /\ \A i \in 0..7 : call.out[i + 1] = (call.arg[1] \div (2 ^ i)) % 2

\* 0x44 went out as 0, 0, 1, 0, 0, 0, 1, 0
C18_Witness ==
  /\ call.fn = "transmit_byte"
  /\ call.arg = <<68>>
  /\ call.out = <<0, 0, 1, 0, 0, 0, 1, 0>>

(***************************************************************************)
(* Further properties of the enumeration.                                  *)
(***************************************************************************)
\* C19: after any FindDevices run, one that ends early included, every table
\* entry at an index 0..numROMs was stored by that run, so no identifier of
\* an earlier enumeration is reachable through the count.
C19_TableReplaced ==
  runs >= 1 => \A i \in 0..4 : i <= numROMs => i \in written

\* the first run stored two devices, the second only one: entry 1 still holds
\* the identifier of the first run and lies beyond the count
C19_Witness ==
  /\ FindDone /\ prevRun.ran /\ prevRun.count = 1
  /\ numROMs = 0 /\ written = {0}
  /\ FoundROM[1] = prevRun.table[1]
  /\ FoundROM[1] # ZeroROM

\* the bit positions at which the devices on the bus do not all agree
SplitPositions == {m \in 1..64 : {ROMBit(d, m) : d \in bus} = {0, 1}}

\* the devices that follow identifier id at every position before m
Following(id, m) ==
  {d \in bus : \A j \in SplitPositions : j < m => ROMBit(d, j) = ROMBit(id, j)}

\* on the way to identifier id the search met a discrepancy at position m
DiscrepancyAt(id, m) == {ROMBit(d, m) : d \in Following(id, m)} = {0, 1}

\* the largest element of a set of positions, 0 for the empty set
Largest(S) == IF S = {} THEN 0 ELSE CHOOSE m \in S : \A j \in S : j <= m

\* a search pass without bus fault has just returned success
PassSucceeded ==
  /\ pc \in {"first", "next"}
  /\ pc' = "store"
  /\ runFaults' = 0

\* lastDiscrep as the pass used it (First clears it before the pass)
UsedDiscrep == IF pc = "first" THEN 0 ELSE lastDiscrep

\* C20 as claimed: at a discrepancy at a position not earlier than
\* lastDiscrep the pass takes 1 and records the position as the new marker.
C20_TakesOneFromLastDiscrep ==
  [][PassSucceeded =>
       /\ \A m \in SplitPositions :
            (DiscrepancyAt(ROM', m) /\ m >= UsedDiscrep) => ROMBit(ROM', m) = 1
       /\ lastDiscrep' =
            Largest({m \in SplitPositions :
                       DiscrepancyAt(ROM', m) /\ m >= UsedDiscrep})]_vars

\* C20 amended: at a discrepancy at a position later than lastDiscrep the
\* pass takes 0 and records the position as the new marker, deferring the 1
\* branch; at the position equal to lastDiscrep it takes 1 and records
\* nothing.  The marker returned is the last position at which 0 was taken.
C20_TakesZeroPastLastDiscrep ==
  [][PassSucceeded =>
       /\ \A m \in SplitPositions :
            DiscrepancyAt(ROM', m)
              => /\ m > UsedDiscrep => ROMBit(ROM', m) = 0
                 /\ m = UsedDiscrep => ROMBit(ROM', m) = 1
       /\ lastDiscrep' =
            Largest({m \in SplitPositions :
                       DiscrepancyAt(ROM', m) /\ ROMBit(ROM', m) = 0})]_vars

\* the second pass on a bus of two devices took 1 at position 9, where the
\* first pass had taken 0
C20_Witness ==
  /\ pc = "store" /\ passes = 2 /\ runFaults = 0
  /\ bus = {ROM_A, ROM_B}
  /\ FoundROM[0] = ROM_B
  /\ ROM = ROM_A
  /\ lastDiscrep = 0

(***************************************************************************)
(* Properties of single search passes.                                     *)
(***************************************************************************)
\* the step is a call of Next(), from First() or from the loop condition
NextCalled == pc \in {"first", "next"} /\ nextOut'.called

\* the call sent the Search command and the pass ended on a (1,1) read
\* (m < 65) or failed the test of line 658
PassFailed ==
  /\ NextCalled
  /\ nextOut'.searched
  /\ (nextOut'.m < 65 \/ nextOut'.nxt = 0)

\* C21: a search pass that ends on a (1,1) read or fails the CRC test returns
\* 0 and sets lastDiscrep to 0; the table and the count stay as they were and
\* FindDevices returns without another pass.
C21_FailedPassEndsRun ==
  [][PassFailed =>
       /\ nextOut'.nxt = 0
       /\ lastDiscrep' = 0
       /\ FoundROM' = FoundROM
       /\ numROMs' = numROMs
       /\ written' = written
       /\ pc' = "idle"]_vars

\* the second pass of a run ended on a (1,1) read after one identifier had
\* been stored
C21_Witness ==
  /\ FindDone /\ passes = 2
  /\ nextOut.searched /\ nextOut.m < 65 /\ nextOut.nxt = 0
  /\ numROMs = 0 /\ written = {0}
  /\ lastDiscrep = 0

\* the reset that opens the call found no presence pulse
NoPresenceAtPass ==
  /\ NextCalled
  /\ Len(busLog') > Len(busLog)
  /\ busLog'[Len(busLog) + 1] = <<"reset", 1>>

\* C22: when the reset opening a search pass detects no presence, no Search
\* command is sent in that pass, lastDiscrep is set to 0, the table and the
\* count stay as they were and FindDevices returns.
C22_NoPresenceStopsDiscovery ==
  [][NoPresenceAtPass =>
       /\ busLog' = Append(busLog, <<"reset", 1>>)
       /\ passes' = passes
       /\ readSlots' = readSlots
       /\ lastDiscrep' = 0
       /\ FoundROM' = FoundROM
       /\ numROMs' = numROMs
       /\ pc' = "idle"]_vars

\* the presence pulse was missed after one identifier of several had been
\* stored
C22_Witness ==
  /\ FindDone /\ passes = 1
  /\ Len(busLog) = 4 /\ busLog[4] = <<"reset", 1>>
  /\ doneFlag = 0
  /\ numROMs = 0 /\ FoundROM[0] \in bus
  /\ Cardinality(bus) >= 2

\* C23: after a successful pass lastDiscrep is the marker recorded in the
\* pass and doneFlag is set exactly when the marker is 0; a Next() call made
\* with doneFlag set returns 0 without sending the Search command, while the
\* call First() makes searches whatever doneFlag was.
C23_MarkerAndDoneFlag ==
  /\ [](nextOut.nxt = 1 =>
          /\ lastDiscrep = nextOut.discrepMarker
          /\ (doneFlag # 0) <=> (nextOut.discrepMarker = 0))
  /\ [][(pc = "next" /\ doneFlag # 0 /\ nextOut'.called) =>
          /\ nextOut'.nxt = 0
          /\ ~nextOut'.searched
          /\ passes' = passes
          /\ Len(busLog') = Len(busLog) + 1]_vars
  /\ [][(pc = "first" /\ nextOut'.called
           /\ busLog'[Len(busLog) + 1] = <<"reset", 0>>) =>
          nextOut'.searched]_vars

\* the second run started with doneFlag set by the first, its First() searched
\* all the same, and the call after its last device was skipped
C23_Witness ==
  /\ FindDone /\ runs = 2
  /\ prevRun.ran /\ prevRun.count = 1 /\ Cardinality(prevRun.bus) = 2
  /\ passes = 2 /\ numROMs = 1
  /\ doneFlag = 1
  /\ nextOut.called /\ ~nextOut.searched
  /\ busLog[Len(busLog)] = <<"reset", 0>>

\* C24: at a discrepancy at a position earlier than lastDiscrep the pass
\* takes the bit the identifier buffer holds there from the previous
\* successful pass.
C24_ReplaysEarlierChoices ==
  [][PassSucceeded =>
       \A m \in SplitPositions :
         (DiscrepancyAt(ROM', m) /\ m < UsedDiscrep)
           => ROMBit(ROM', m) = ROMBit(ROM, m)]_vars

\* the third pass on a bus of three devices replayed a 1 at an earlier
\* discrepancy
C24_Witness ==
  /\ pc = "store" /\ passes = 3 /\ runFaults = 0
  /\ Cardinality(bus) = 3
  /\ \E m \in SplitPositions :
       /\ DiscrepancyAt(ROM, m)
       /\ ROMBit(ROM, m) = 1
       /\ ROMBit(FoundROM[1], m) = 1
       /\ ROMBit(FoundROM[0], m) = 0
       /\ \E m2 \in SplitPositions :
            /\ m2 > m
            /\ DiscrepancyAt(ROM, m2)
            /\ ROMBit(ROM, m2) = 1
            /\ ROMBit(FoundROM[1], m2) = 0

(***************************************************************************)
(* Properties of sampling followed by formatting.                          *)
(***************************************************************************)
\* a sampling pass ran to its end with presence at every reset, and
\* convert_temperature was then called for a table device that is off the
\* line
AbsentDeviceFormatted ==
  /\ pc = "idle" /\ runs = 1 /\ failedAt = -1 /\ device_num = 5
  /\ conv.called
  /\ conv.device_num <= numROMs
  /\ FoundROM[conv.device_num] \notin bus
  /\ slotSrc[conv.device_num].pass = 1

\* C25: a table device that does not answer the scratchpad read while the
\* bus still reports presence (all 16 bits read as 1) is formatted as the
\* placeholder "------".
C25_AbsentDevicePlaceholder ==
  AbsentDeviceFormatted => OctetArray = Placeholder

(***************************************************************************)
(* Bounds of the search.                                                   *)
(***************************************************************************)
\* C26: every access to the identifier buffer ROM in a search pass and in
\* its validation uses an index in 0..7.
C26_RomIndexInBounds == nextOut.maxN <= 7 /\ ~oobRead

\* the Next() calls of the current run
NextCalls == Len(SelectSeq(busLog, LAMBDA ev : ev[1] = "reset")) - 1

IdBefore(a, b) ==
  LET D == {m \in 1..64 : ROMBit(a, m) # ROMBit(b, m)}
  IN  D # {} /\ ROMBit(a, Largest({m \in D : \A j \in D : m <= j})) = 0

\* C30: on a fault-free bus every successful pass of the loop yields an
\* identifier that comes after the one stored before it, so the identifiers
\* are stored in strictly ascending order, none twice, and so are the table
\* entries reachable through the count.
C30_AscendingOrder ==
  /\ [](runFaults = 0 =>
          \A i \in written, j \in written :
            (i < j /\ j <= numROMs) => IdBefore(FoundROM[i], FoundROM[j]))
  /\ [][(PassSucceeded /\ pc = "next") => IdBefore(ROM, ROM')]_vars

\* three devices enumerated in ascending order
C30_Witness ==
  /\ FindDone /\ runFaults = 0
  /\ Cardinality(bus) = 3
  /\ numROMs = 2 /\ written = {0, 1, 2}
  /\ {FoundROM[0], FoundROM[1], FoundROM[2]} = bus
  /\ IdBefore(FoundROM[0], FoundROM[1])
  /\ IdBefore(FoundROM[1], FoundROM[2])

(***************************************************************************)
(* Properties of the sample slots.                                         *)
(***************************************************************************)
\* the byte the eight read slots from bus operation p on spell, first bit
\* read as bit 0
ByteRead(p) ==
  LET acc[j \in 0..8] ==
        IF j = 0 THEN 0 ELSE acc[j - 1] + busLog[p + j - 1][2] * Pow2(j - 1)
  IN  acc[8]

\* C28: after the turn of table device i, byte 0 of its slot is the first eight
\* bits read and byte 1 the next eight, each with the first bit read as bit 0,
\* whatever the slot held before.
C28_SlotFromReadSlots ==
  runs >= 1
    => \A i \in 0..4 :
         i < TurnsDone
           => /\ DS18B20_scratch[i][0] = ByteRead(38 * i + 12)
              /\ DS18B20_scratch[i][1] = ByteRead(38 * i + 20)

\* a slot that held 0x55 0x55 now holds the register of the first device
C28_Witness ==
  /\ runs >= 1 /\ TurnsDone >= 1
  /\ scratch0[0][0] = 85 /\ scratch0[0][1] = 85
  /\ FoundROM[0] \in bus
  /\ DS18B20_scratch[0][0] = Scratchpad(FoundROM[0]) % 256
  /\ DS18B20_scratch[0][1] = Scratchpad(FoundROM[0]) \div 256
  /\ DS18B20_scratch[0][0] # 85

\* C29: in a pass in which every reset detects presence, a table device that
\* does not answer does not end the pass: every table device gets its turn,
\* and each one that is on the line is read and sent Convert-T in this pass.
C29_AbsentDeviceDoesNotStopPass ==
  (pc = "idle" /\ runs >= 1 /\ runFaults = 0 /\ bus # {})
    => /\ device_num = 5
       /\ failedAt = -1
       /\ \A i \in 0..4 :
            i <= numROMs
              => /\ slotSrc[i].pass = runs
                 /\ FoundROM[i] \in bus
                      => /\ DS18B20_scratch[i][0] = Scratchpad(FoundROM[i]) % 256
                         /\ DS18B20_scratch[i][1] = Scratchpad(FoundROM[i]) \div 256
                         /\ devConv[FoundROM[i]] = runs

\* the first table device is off the line, the second was read and
\* re-triggered all the same
C29_Witness ==
  /\ pc = "idle" /\ runs >= 1 /\ runFaults = 0
  /\ numROMs >= 1
  /\ FoundROM[0] \notin bus
  /\ DS18B20_scratch[0][0] = 255 /\ DS18B20_scratch[0][1] = 255
  /\ FoundROM[1] \in bus
  /\ slotSrc[1].pass = runs
  /\ devConv[FoundROM[1]] = runs
  /\ DS18B20_scratch[1][0] = Scratchpad(FoundROM[1]) % 256

\* C31: a sampling pass performs bus operations, reset included, only for the
\* table devices (38 operations for each of the numROMs + 1 entries at most);
\* with an empty table it performs none.
C31_BusOnlyForTableDevices ==
  runs >= 1 => Len(busLog) <= 38 * (numROMs + 1)

(***************************************************************************)
(* Accuracy of the rendering.                                              *)
(***************************************************************************)
\* the value of a digit character
DigitValue(ch) == CHOOSE d \in 0..9 : DigitChar(d) = ch

\* the number the string in OctetArray shows, in tenths of a degree
ShownTenths ==
  LET mag == 1000 * DigitValue(OctetArray[2]) + 100 * DigitValue(OctetArray[3])
               + 10 * DigitValue(OctetArray[4]) + DigitValue(OctetArray[6])
  IN  IF OctetArray[1] = "-" THEN -mag ELSE mag

\* raw * 9/80 + 32 in tenths of a degree, (9 * raw + 2560) / 8, rounded to
\* the nearest integer
ExactFahrenheitTenths(raw) ==
  LET x == 9 * raw + 2560
  IN  IF x >= 0 THEN (2 * x + 8) \div 16 ELSE -((2 * (-x) + 8) \div 16)

\* C32: for a raw sample in -880..2000 the Fahrenheit value shown differs
\* from the exact conversion rounded to one decimal by at most 0.1 degree.
C32_FahrenheitWithinTenth ==
  (conv.called /\ conv.degCorF = 1 /\ -880 <= ConvRaw /\ ConvRaw <= 2000)
    => Abs(ShownTenths - ExactFahrenheitTenths(ConvRaw)) <= 1

\* raw -874 (-54.625 C, -66.325 F) is shown as -66.4 F
C32_Witness ==
  /\ conv.called /\ conv.degCorF = 1
  /\ ConvRaw = -874
  /\ OctetArray = <<"-", "0", "6", "6", ".", "4">>
  /\ ExactFahrenheitTenths(ConvRaw) = -663

\* C33: for every fraction nibble n the digit shown is n/16 rounded to the
\* nearest tenth, ties up: the digit of (10 * n + 8) div 16, which is at
\* most 9, so no carry into the whole part arises.
C33_RoundingTable ==
  (conv.called /\ conv.sensor)
    => /\ conv.decimal_temp \in 0..15
       /\ (10 * conv.decimal_temp + 8) \div 16 <= 9
       /\ OctetArray[6] = DigitChar((10 * conv.decimal_temp + 8) \div 16)

\* the nibble 4 (0.25) is a tie and is shown as 3, the nibble 15 as 9
C33_Witness ==
  /\ conv.called /\ conv.sensor /\ conv.degCorF = 0
  /\ ConvHigh = 0 /\ ConvLow = 20
  /\ conv.decimal_temp = 4
  /\ OctetArray = <<" ", "0", "0", "1", ".", "3">>

(***************************************************************************)
(* Frame of the two entry points.                                          *)
(***************************************************************************)
\* the step belongs to get_temperature
SamplingStep == pc = "sample" \/ pc' = "sample"

\* C34: get_temperature changes neither the identifier table, numROMs nor the
\* search state ROM, lastDiscrep, doneFlag; FindDevices with First and Next
\* changes no sample slot.
C34_Frames ==
  /\ [][SamplingStep => UNCHANGED findVars]_vars
  /\ [][~SamplingStep => UNCHANGED DS18B20_scratch]_vars

\* an enumeration of two devices followed by a sampling pass over them
C34_Witness ==
  /\ pc = "idle" /\ runs = 2 /\ device_num = 5
  /\ numROMs = 1 /\ written = {0, 1}
  /\ doneFlag = 1
  /\ FoundROM[0] \in bus /\ FoundROM[1] \in bus
  /\ DS18B20_scratch[0][0] = Scratchpad(FoundROM[0]) % 256
  /\ DS18B20_scratch[1][0] = Scratchpad(FoundROM[1]) % 256

(***************************************************************************)
(* Algebra of the CRC.                                                     *)
(***************************************************************************)
\* C36: dallas_crc8 of a byte sequence followed by its own dallas_crc8 is 0;
\* so it is 0 over the eight bytes of an identifier whose eighth byte is the
\* CRC of the first seven.
C36_CrcOfAppendedCrcIsZero ==
  /\ call.fn = "dallas_crc8_appended" => call.out = <<0>>
  /\ (call.fn = "dallas_crc8" /\ Len(call.arg) = 8
        /\ call.arg[8] = RefCrc(SubSeq(call.arg, 1, 7)))
       => call.out = <<0>>

\* the identifier of application note 27 with its CRC 0xA2 appended
C36_Witness ==
  /\ call.fn = "dallas_crc8_appended"
  /\ call.arg = <<2, 28, 184, 1, 0, 0, 0, 162>>
  /\ call.out = <<0>>

(***************************************************************************)
(* The bus pin.                                                            *)
(***************************************************************************)
\* the last call was one of the three functions that drive the pin
PinCall == call.fn \in {"reset_pulse", "read_bit", "write_bit"}

\* C35: when reset_pulse, write_bit or read_bit returns, the pin is an
\* input, so the master does not hold the line low between bus operations.
C35_PinReleasedOnReturn ==
  PinCall => call.out.pin.ddr = "in"

\* write_bit(0) held the line low for 65 microseconds and released it
C35_Witness ==
  /\ call.fn = "write_bit" /\ call.arg = <<0>>
  /\ call.out.pin.low = 65
  /\ call.out.pin.ddr = "in"

\* C37 as claimed: write_bit holds the line low 1..15 microseconds for a 1
\* and 60..120 for a 0, then waits a fixed recovery delay, and the slot takes
\* 65..70 microseconds for either bit value.
C37_SlotSixtyFiveToSeventy ==
  call.fn = "write_bit"
    => /\ call.arg[1] # 0 => call.out.pin.low \in 1..15
       /\ call.arg[1] = 0 => call.out.pin.low \in 60..120
       /\ call.out.pin.idle = 60
       /\ call.out.pin.total \in 65..70

\* C37 amended: the low time is 5 microseconds for a 1 and 65 for a 0, the
\* recovery delay is 60 microseconds for both, and the slot takes 65
\* microseconds for a 1 and 125 for a 0.
C37_SlotTimes ==
  call.fn = "write_bit"
    => /\ call.arg[1] # 0 => (call.out.pin.low = 5 /\ call.out.pin.total = 65)
       /\ call.arg[1] = 0 => (call.out.pin.low = 65 /\ call.out.pin.total = 125)
       /\ call.out.pin.low \in (IF call.arg[1] = 0 THEN 60..120 ELSE 1..15)
       /\ call.out.pin.idle = 60

\* a 0 was sent: 65 microseconds low, 60 of recovery
C37_Witness ==
  /\ call.fn = "write_bit" /\ call.arg = <<0>>
  /\ call.out.pin.low = 65
  /\ call.out.pin.idle = 60
  /\ call.out.pin.total = 125

(***************************************************************************)
(* Properties of mqtt_pal_sendall.                                         *)
(***************************************************************************)
\* the MQTT variable-length encoding of a remaining length of 128..16383:
\* the low seven bits with the continuation bit, then the rest
TwoByteLength(r) == <<Or0x80(r % 128), r \div 128>>

\* the call replaced the placeholder of a packet
Replaced == call.fn = "mqtt_pal_sendall" /\ call.out.replaced

\* C38: when mqtt_pal_sendall replaces a placeholder, whatever the device
\* name of 0..19 characters and the old one-byte remaining length that passed
\* the detection, the new remaining length R lies in 256..511, the two bytes
\* written after the control byte are (R mod 128) | 0x80 and R div 128, and
\* uip_slen is R + 3.
C38_RemainingLengthEncoded ==
  Replaced
    => /\ call.out.size \in 256..511
       /\ call.out.bytes = TwoByteLength(call.out.size)
       /\ call.out.uip_slen = call.out.size + 3

\* C39: mqtt_pal_sendall returns the len it was given whether or not the
\* packet was replaced, and sets uip_slen to len for a packet that is not
\* replaced.
C39_ReturnsLen ==
  call.fn = "mqtt_pal_sendall"
    => /\ call.out.rtn = call.arg.len
       /\ ~call.out.replaced => call.out.uip_slen = call.arg.len

\* a placeholder was replaced by a larger packet, and the call returned the
\* length of the packet it was given
C39_Witness ==
  /\ Replaced
  /\ call.out.uip_slen > call.arg.len
  /\ call.out.rtn = call.arg.len

====
